---- MODULE Spec2Model ----
(***************************************************************************)
(* Model of MyPlugin (src/src/knative.ts): the Knative content plugin for  *)
(* the Octant dashboard.  The plugin holds a namespace and two host        *)
(* clients; the host calls its handlers one at a time.  A handler call is  *)
(* one step of the model: the step records the request, every query the    *)
(* handler issued to the host client, what the client returned, and what   *)
(* the handler gave back to the host.                                      *)
(*                                                                         *)
(* JavaScript strings are sequences of one-character strings, so that      *)
(* ===, startsWith, split, localeCompare and parseInt are computed         *)
(* character by character.  A JavaScript object is a record whose optional *)
(* properties may be missing from its domain.                              *)
(***************************************************************************)
EXTENDS Integers, Sequences, FiniteSets, TLC

VARIABLES
    namespace,        \* this.namespace
    dashboardClient,  \* this.dashboardClient
    httpClient,       \* this.httpClient
    actionLog,        \* history: every ActionRequest handled since construction
    call,             \* the most recent handler call: the handler the host called,
                      \* the method it was routed to, and the request
    queries,          \* the queries that call issued to dashboardClient, in order,
                      \* each with the client's answer
    result            \* what that call gave back to the host

vars == <<namespace, dashboardClient, httpClient, actionLog, call, queries, result>>

----------------------------------------------------------------------------
(* Bounds of the model. *)

\* longest array the host client returns from one List call
MaxList == 2

\* number of actionHandler calls recorded in actionLog
MaxActions == 2

----------------------------------------------------------------------------
(* String literals of the source, as character sequences. *)

Slash == <<"/">>

Services == <<"/", "s", "e", "r", "v", "i", "c", "e", "s">>

Configurations == <<"/", "c", "o", "n", "f", "i", "g", "u", "r", "a", "t", "i", "o", "n", "s">>

Routes == <<"/", "r", "o", "u", "t", "e", "s">>

\* a variant: the prefix written without its closing '/'
ServicesPrefixWithoutSlash == Services

\* the path prefixes of the detail pages
ServicesPrefix == Services \o Slash

ConfigurationsPrefix == Configurations \o Slash

RoutesPrefix == Routes \o Slash

NotFoundPrefix == <<"N", "o", "t", " ", "F", "o", "u", "n", "d", " ", "-", " ">>

MinusOne == <<"-", "1">>

DefaultNamespace == "default"

SetNamespaceAction == "action.octant.dev/setNamespace"

TestAction == "knative/testAction"

DeleteObjectAction == "action.octant.dev/deleteObject"

ApiVersion == "serving.knative.dev/v1"

GenerationLabel == "serving.knative.dev/configurationGeneration"

ServiceLabel == "serving.knative.dev/service"

ConfigurationLabel == "serving.knative.dev/configuration"

\* the value of a property that an object does not have
Undefined == <<"undefined">>

----------------------------------------------------------------------------
(* JavaScript built-ins the plugin uses. *)

\* obj[key]: the property, or undefined when the object has none of that name
Prop(obj, key) == IF key \in DOMAIN obj THEN obj[key] ELSE Undefined

\* a || b for a string or undefined a: undefined and "" are falsy
OrElse(a, b) == IF a = Undefined \/ a = <<>> THEN b ELSE a

\* String.prototype.startsWith
StartsWith(s, prefix) ==
    /\ Len(s) >= Len(prefix)
    /\ SubSeq(s, 1, Len(prefix)) = prefix

\* String.prototype.split with a one-character separator: the segments
\* between the separators, empty ones included
RECURSIVE SplitFrom(_, _, _, _)
SplitFrom(s, sep, i, cur) ==
    IF i > Len(s) THEN <<cur>>
    ELSE IF s[i] = sep THEN <<cur>> \o SplitFrom(s, sep, i + 1, <<>>)
    ELSE SplitFrom(s, sep, i + 1, Append(cur, s[i]))

Split(s, sep) == SplitFrom(s, sep, 1, <<>>)

\* a variant: the index taken as 1-based
ElementAtOneBased(array, i) == IF i >= 1 /\ i <= Len(array) THEN array[i] ELSE Undefined

\* array[i] with JavaScript's 0-based index: undefined past the end
ElementAt(array, i) == IF i + 1 <= Len(array) THEN array[i + 1] ELSE Undefined

\* The collation order of the characters Kubernetes allows in an object
\* name (RFC 1123: lower-case letters, digits, '-', '.'): punctuation, then
\* digits, then letters.
Collation ==
    <<"-", ".", "0", "1", "2", "3", "4", "5", "6", "7", "8", "9",
      "a", "b", "c", "d", "e", "f", "g", "h", "i", "j", "k", "l", "m",
      "n", "o", "p", "q", "r", "s", "t", "u", "v", "w", "x", "y", "z">>

CollationRank(c) == CHOOSE i \in 1..Len(Collation) : Collation[i] = c

\* String.prototype.localeCompare: negative, zero or positive
RECURSIVE LocaleCompareFrom(_, _, _)
LocaleCompareFrom(a, b, i) ==
    IF i > Len(a) /\ i > Len(b) THEN 0
    ELSE IF i > Len(a) THEN -1
    ELSE IF i > Len(b) THEN 1
    ELSE IF CollationRank(a[i]) < CollationRank(b[i]) THEN -1
    ELSE IF CollationRank(a[i]) > CollationRank(b[i]) THEN 1
    ELSE LocaleCompareFrom(a, b, i + 1)

LocaleCompare(a, b) == LocaleCompareFrom(a, b, 1)

Digits == <<"0", "1", "2", "3", "4", "5", "6", "7", "8", "9">>

IsDigit(c) == \E d \in 1..Len(Digits) : Digits[d] = c

DigitValue(c) == (CHOOSE d \in 1..Len(Digits) : Digits[d] = c) - 1

\* the value of the longest run of decimal digits of s that starts at i,
\* given the value acc of the digits before i
RECURSIVE DigitsFrom(_, _, _)
DigitsFrom(s, i, acc) ==
    IF i > Len(s) \/ ~IsDigit(s[i]) THEN acc
    ELSE DigitsFrom(s, i + 1, 10 * acc + DigitValue(s[i]))

\* parseInt(s): an optional sign, then decimal digits up to the first
\* character that is none; NaN when there is no digit
ParseInt(s) ==
    LET negative == Len(s) >= 1 /\ s[1] = "-"
        start == IF Len(s) >= 1 /\ (s[1] = "-" \/ s[1] = "+") THEN 2 ELSE 1
    IN  IF start > Len(s) \/ ~IsDigit(s[start])
        THEN [nan |-> TRUE, value |-> 0]
        ELSE [nan |-> FALSE,
              value |-> IF negative THEN 0 - DigitsFrom(s, start, 0)
                        ELSE DigitsFrom(s, start, 0)]

\* a - b on numbers: NaN when either is NaN
Minus(a, b) ==
    IF a.nan \/ b.nan THEN [nan |-> TRUE, value |-> 0]
    ELSE [nan |-> FALSE, value |-> a.value - b.value]

\* a variant: the operands of localeCompare exchanged
CompareNameDescending(a, b) ==
    [nan |-> FALSE,
     value |-> LocaleCompare(OrElse(Prop(b.metadata, "name"), <<>>),
                             OrElse(Prop(a.metadata, "name"), <<>>))]

\* (a, b) => (a.metadata.name || '').localeCompare(b.metadata.name || '')
CompareName(a, b) ==
    [nan |-> FALSE,
     value |-> LocaleCompare(OrElse(Prop(a.metadata, "name"), <<>>),
                             OrElse(Prop(b.metadata, "name"), <<>>))]

\* the generation label a comparator reads:
\* (a.metadata.labels || {})['serving.knative.dev/configurationGeneration'] || '-1'
Generation(a) ==
    LET labels == IF "labels" \in DOMAIN a.metadata THEN a.metadata.labels ELSE <<>>
    IN  OrElse(Prop(labels, GenerationLabel), MinusOne)

\* a variant: the labels compared as text, without parseInt
CompareGenerationAsText(a, b) ==
    [nan |-> FALSE, value |-> LocaleCompare(Generation(a), Generation(b))]

\* a variant: a comparator that answers "less" or "not less", never "greater"
CompareGenerationOneSided(a, b) ==
    [nan |-> FALSE,
     value |-> IF ParseInt(Generation(a)).value < ParseInt(Generation(b)).value
               THEN -1 ELSE 0]

\* (a, b) => parseInt(generationA) - parseInt(generationB)
CompareGeneration(a, b) == Minus(ParseInt(Generation(a)), ParseInt(Generation(b)))

\* the two comparator closures of the plugin, by name
Comparator(cmp, a, b) ==
    IF cmp = "name" THEN CompareName(a, b) ELSE CompareGeneration(a, b)

\* Array.prototype.sort calls the comparator and reads a NaN result as +0
SortCompare(cmp, a, b) ==
    LET v == Comparator(cmp, a, b) IN IF v.nan THEN 0 ELSE v.value

\* Array.prototype.sort(cmp) is stable: an element moves in front of the
\* elements it compares below, and stays behind those it does not.
RECURSIVE InsertSorted(_, _, _)
InsertSorted(cmp, sorted, x) ==
    IF sorted = <<>> THEN <<x>>
    ELSE LET last == sorted[Len(sorted)]
         IN  IF SortCompare(cmp, last, x) > 0
             THEN Append(InsertSorted(cmp, SubSeq(sorted, 1, Len(sorted) - 1), x), last)
             ELSE Append(sorted, x)

RECURSIVE SortFrom(_, _, _, _)
SortFrom(cmp, array, i, sorted) ==
    IF i > Len(array) THEN sorted
    ELSE SortFrom(cmp, array, i + 1, InsertSorted(cmp, sorted, array[i]))

ArraySort(cmp, array) == SortFrom(cmp, array, 1, <<>>)

----------------------------------------------------------------------------
(* The host: the requests it sends and what its client answers. *)

\* a Kubernetes object with a name, and one without
Named(uid, name) == [metadata |-> [uid |-> uid, name |-> name]]

Nameless(uid) == [metadata |-> [uid |-> uid]]

\* a Revision with a labels map, and one without
Labelled(uid, labels) == [metadata |-> [uid |-> uid, labels |-> labels]]

Namespaces == {"default", "prod", "dev"}

Kinds == {"Service", "Configuration", "Route", "Revision"}

\* The objects of each kind in each namespace of the cluster.  Names and
\* labels may be absent; a generation label is a decimal number.
Cluster ==
    [ns \in Namespaces |->
        [kind \in Kinds |->
            CASE ns = "default" /\ kind = "Service" ->
                    { Named(1, <<"b">>), Nameless(2), Nameless(3) }
              [] ns = "prod" /\ kind = "Configuration" ->
                    { Named(1, <<"b">>), Named(2, <<"a", "b">>), Named(3, <<"a", "-", "b">>) }
              [] ns = "dev" /\ kind = "Route" ->
                    { Named(1, <<"a", "b">>), Named(2, <<"a">>), Nameless(3) }
              [] ns = "default" /\ kind = "Revision" ->
                    { Labelled(1, (GenerationLabel :> <<"0">>)), Nameless(2) }
              [] ns = "prod" /\ kind = "Revision" ->
                    { Labelled(1, (GenerationLabel :> <<"1", "0">>)),
                      Labelled(2, (GenerationLabel :> <<"9">>)) }
              [] ns = "dev" /\ kind = "Revision" ->
                    { Nameless(1),
                      Labelled(2, (ServiceLabel :> <<"a">>)),
                      Labelled(3, (GenerationLabel :> <<"1", "0">>)) }
              [] OTHER -> { Named(1, <<"a">>) } ] ]

\* the arrays of at most n distinct objects of a pool, in every order
Arrays(pool, n) ==
    UNION { { a \in [1..k -> pool] : \A i, j \in 1..k : a[i] = a[j] => i = j } : k \in 0..n }

\* a client call raises, or returns a value
Raised == [ok |-> FALSE]

Returned(value) == [ok |-> TRUE, value |-> value]

\* what List may answer to a query: it raises, or returns at most MaxList
\* objects of the queried kind and namespace, in any order
ListResponses ==
    [ns \in Namespaces |->
        [kind \in Kinds |->
            {Raised} \cup { Returned(a) : a \in Arrays(Cluster[ns][kind], MaxList) } ] ]

ListAnswers(key) == ListResponses[key.namespace][key.kind]

\* what Get may answer: it raises, or returns an object of the queried kind
\* and namespace
GetResponses ==
    [ns \in Namespaces |->
        [kind \in Kinds |-> {Raised} \cup { Returned(o) : o \in Cluster[ns][kind] } ] ]

GetAnswers(key) == GetResponses[key.namespace][key.kind]

Heads ==
    { <<>>, Slash, Services, Configurations, Routes,
      <<"/", "s", "e", "r", "v", "i", "c", "e">>,
      <<"s", "e", "r", "v", "i", "c", "e", "s">> }

Tails == { <<>>, <<"X">>, <<"/">>, <<"/", "a", "/", "b">> }

ContentPaths == { h \o t : h \in Heads, t \in Tails }

ContentRequests == { [contentPath |-> p] : p \in ContentPaths }

ActionRequests ==
    { [actionName |-> SetNamespaceAction, payload |-> [namespace |-> "prod"]],
      [actionName |-> SetNamespaceAction, payload |-> [namespace |-> "dev"]],
      [actionName |-> TestAction, payload |-> [namespace |-> "dev"]] }

ObjectRequests == { [object |-> o] : o \in Cluster["default"]["Service"] }

----------------------------------------------------------------------------
(* The plugin. *)

\* constructor
Init ==
    /\ dashboardClient = "dashboardClient"
    /\ httpClient = "httpClient"
    /\ namespace = DefaultNamespace
    /\ actionLog = <<>>
    /\ call = [handler |-> "constructor", method |-> "constructor"]
    /\ queries = <<>>
    /\ result = [type |-> "void"]

\* the host called handler, which ran method on the request, issued the
\* queries qs and gave res back to the host
Handled(handler, method, request, qs, res) ==
    /\ call' = [handler |-> handler, method |-> method, request |-> request]
    /\ queries' = qs
    /\ result' = res

\* an exception that leaves the handler
Throw(message) == [type |-> "Error", message |-> message]

printHandler(request) ==
    /\ Handled("printHandler", "printHandler", request, <<>>,
               Throw("KnativePlugin#printHandler should never be called"))
    /\ UNCHANGED <<namespace, dashboardClient, httpClient, actionLog>>

\* a variant: the payload namespace taken from every action
actionHandlerOfAnyAction(request) ==
    /\ Len(actionLog) < MaxActions
    /\ actionLog' = Append(actionLog, request)
    /\ namespace' = request.payload.namespace
    /\ Handled("actionHandler", "actionHandler", request, <<>>, [type |-> "void"])
    /\ UNCHANGED <<dashboardClient, httpClient>>

\* a variant: an action other than setNamespace resets the namespace
actionHandlerResetting(request) ==
    /\ Len(actionLog) < MaxActions
    /\ actionLog' = Append(actionLog, request)
    /\ IF request.actionName = SetNamespaceAction
       THEN namespace' = request.payload.namespace
       ELSE namespace' = DefaultNamespace
    /\ Handled("actionHandler", "actionHandler", request, <<>>, [type |-> "void"])
    /\ UNCHANGED <<dashboardClient, httpClient>>

actionHandler(request) ==
    /\ Len(actionLog) < MaxActions
    /\ actionLog' = Append(actionLog, request)
    /\ IF request.actionName = SetNamespaceAction
       THEN namespace' = request.payload.namespace
       ELSE namespace' = namespace
    /\ Handled("actionHandler", "actionHandler", request, <<>>, [type |-> "void"])
    /\ UNCHANGED <<dashboardClient, httpClient>>

tabHandler(request) ==
    /\ Handled("tabHandler", "tabHandler", request, <<>>,
               Throw("KnativePlugin#tabHandler should never be called"))
    /\ UNCHANGED <<namespace, dashboardClient, httpClient, actionLog>>

navigationHandler ==
    /\ Handled("navigationHandler", "navigationHandler", [none |-> TRUE], <<>>,
               [type |-> "Navigation", title |-> "Knative", path |-> "knative",
                icon |-> "cloud",
                children |-> << [title |-> "Services", path |-> "services"],
                                [title |-> "Configurations", path |-> "configurations"],
                                [title |-> "Routes", path |-> "routes"] >>])
    /\ UNCHANGED <<namespace, dashboardClient, httpClient, actionLog>>

\* a call of dashboardClient.Get or List: the key it passed and the
\* client's answer
Issued(op, key, response) == [op |-> op, key |-> key, response |-> response]

\* what a method that called the client leaves behind: whether an exception
\* left it, the queries it issued, its value
Threw(qs) == [threw |-> TRUE, queries |-> qs]

Value(qs, value) == [threw |-> FALSE, queries |-> qs, value |-> value]

\* the key of the List in serviceListing, and the method given the
\* client's answer
serviceListingKey ==
    [apiVersion |-> ApiVersion, kind |-> "Service", namespace |-> namespace]

serviceListing(response) ==
    IF ~response.ok THEN Threw(<<Issued("List", serviceListingKey, response)>>)
    ELSE Value(<<Issued("List", serviceListingKey, response)>>,
               [factory |-> "ServiceListFactory",
                items |-> ArraySort("name", response.value)])

\* the key of the Get in serviceDetail, the key of its List given the
\* service the Get returned, and the method given the client's answers;
\* the List is issued only when the Get returned
serviceDetailKey(name) ==
    [apiVersion |-> ApiVersion, kind |-> "Service", namespace |-> namespace, name |-> name]

\* a variant: the selector label of configurationDetail
serviceRevisionsKeyByConfiguration(service) ==
    [apiVersion |-> ApiVersion, kind |-> "Revision", namespace |-> namespace,
     selector |-> (ConfigurationLabel :> Prop(service.metadata, "name"))]

serviceRevisionsKey(service) ==
    [apiVersion |-> ApiVersion, kind |-> "Revision", namespace |-> namespace,
     selector |-> (ServiceLabel :> Prop(service.metadata, "name"))]

\* the summary and the YAML editor of a detail page
DetailBody(factory, object, revisions) ==
    << [factory |-> factory, object |-> object, revisions |-> revisions],
       [factory |-> "EditorFactory", object |-> object] >>

\* a variant: a List that raised is read as an empty list
serviceDetailCatching(name, got, listed) ==
    IF ~got.ok THEN Threw(<<Issued("Get", serviceDetailKey(name), got)>>)
    ELSE Value(<< Issued("Get", serviceDetailKey(name), got),
                  Issued("List", serviceRevisionsKey(got.value), listed) >>,
               DetailBody("ServiceSummaryFactory", got.value,
                          IF listed.ok THEN ArraySort("generation", listed.value)
                          ELSE <<>>))

serviceDetail(name, got, listed) ==
    IF ~got.ok THEN Threw(<<Issued("Get", serviceDetailKey(name), got)>>)
    ELSE LET service == got.value
             qs == << Issued("Get", serviceDetailKey(name), got),
                      Issued("List", serviceRevisionsKey(service), listed) >>
         IN  IF ~listed.ok THEN Threw(qs)
             ELSE Value(qs,
                        DetailBody("ServiceSummaryFactory", service,
                                   ArraySort("generation", listed.value)))

configurationListingKey ==
    [apiVersion |-> ApiVersion, kind |-> "Configuration", namespace |-> namespace]

configurationListing(response) ==
    IF ~response.ok THEN Threw(<<Issued("List", configurationListingKey, response)>>)
    ELSE Value(<<Issued("List", configurationListingKey, response)>>,
               [factory |-> "ConfigurationListFactory",
                items |-> ArraySort("name", response.value)])

configurationDetailKey(name) ==
    [apiVersion |-> ApiVersion, kind |-> "Configuration", namespace |-> namespace,
     name |-> name]

\* a variant: the Revisions listed in the namespace of construction
configurationRevisionsKeyInDefault(configuration) ==
    [apiVersion |-> ApiVersion, kind |-> "Revision", namespace |-> DefaultNamespace,
     selector |-> (ConfigurationLabel :> Prop(configuration.metadata, "name"))]

configurationRevisionsKey(configuration) ==
    [apiVersion |-> ApiVersion, kind |-> "Revision", namespace |-> namespace,
     selector |-> (ConfigurationLabel :> Prop(configuration.metadata, "name"))]

configurationDetail(name, got, listed) ==
    IF ~got.ok THEN Threw(<<Issued("Get", configurationDetailKey(name), got)>>)
    ELSE LET configuration == got.value
             qs == << Issued("Get", configurationDetailKey(name), got),
                      Issued("List", configurationRevisionsKey(configuration), listed) >>
         IN  IF ~listed.ok THEN Threw(qs)
             ELSE Value(qs,
                        DetailBody("ConfigurationSummaryFactory", configuration,
                                   ArraySort("generation", listed.value)))

routeListingKey ==
    [apiVersion |-> ApiVersion, kind |-> "Route", namespace |-> namespace]

routeListing(response) ==
    IF ~response.ok THEN Threw(<<Issued("List", routeListingKey, response)>>)
    ELSE Value(<<Issued("List", routeListingKey, response)>>,
               [factory |-> "RouteListFactory",
                items |-> ArraySort("name", response.value)])

routeDetailKey(name) ==
    [apiVersion |-> ApiVersion, kind |-> "Route", namespace |-> namespace, name |-> name]

routeDetail(name, got) ==
    IF ~got.ok THEN Threw(<<Issued("Get", routeDetailKey(name), got)>>)
    ELSE Value(<<Issued("Get", routeDetailKey(name), got)>>,
               << [factory |-> "RouteSummaryFactory", object |-> got.value],
                  [factory |-> "EditorFactory", object |-> got.value] >>)

\* h.createContentResponse(title, body, buttonGroup)
ContentResponse(title, body, buttons) ==
    [type |-> "ContentResponse", title |-> title, body |-> body, buttons |-> buttons]

\* an exception raised by the client leaves every method on the stack
ClientError == Throw("dashboardClient")

\* the payload of the Delete button
DeletePayload(kind, name) ==
    [action |-> DeleteObjectAction, apiVersion |-> ApiVersion, kind |-> kind,
     namespace |-> namespace, name |-> name]

knativeOverviewHandler(request) ==
    \E r1 \in ListAnswers(serviceListingKey) :
        LET services == serviceListing(r1) IN
        IF services.threw
        THEN Handled("contentHandler", "knativeOverviewHandler", request,
                     services.queries, ClientError)
        ELSE \E r2 \in ListAnswers(configurationListingKey) :
            LET configurations == configurationListing(r2) IN
            IF configurations.threw
            THEN Handled("contentHandler", "knativeOverviewHandler", request,
                         services.queries \o configurations.queries, ClientError)
            ELSE \E r3 \in ListAnswers(routeListingKey) :
                LET routes == routeListing(r3)
                    qs == services.queries \o configurations.queries \o routes.queries
                IN  IF routes.threw
                    THEN Handled("contentHandler", "knativeOverviewHandler", request,
                                 qs, ClientError)
                    ELSE Handled("contentHandler", "knativeOverviewHandler", request, qs,
                                 ContentResponse(<<"Knative">>,
                                     <<services.value, configurations.value, routes.value>>,
                                     <<>>))

serviceListingHandler(request) ==
    \E r \in ListAnswers(serviceListingKey) :
        LET services == serviceListing(r) IN
        Handled("contentHandler", "serviceListingHandler", request, services.queries,
                IF services.threw THEN ClientError
                ELSE ContentResponse(<<"Knative", "Services">>, <<services.value>>, <<>>))

serviceDetailHandler(request) ==
    LET name == ElementAt(Split(request.contentPath, "/"), 2) IN
    \E got \in GetAnswers(serviceDetailKey(name)) :
        \E listed \in IF got.ok THEN ListAnswers(serviceRevisionsKey(got.value))
                      ELSE {Raised} :
            LET body == serviceDetail(name, got, listed) IN
            Handled("contentHandler", "serviceDetailHandler", request, body.queries,
                    IF body.threw THEN ClientError
                    ELSE ContentResponse(<<"Knative", "Services", name>>, body.value,
                                         <<DeletePayload("Service", name)>>))

configurationListingHandler(request) ==
    \E r \in ListAnswers(configurationListingKey) :
        LET configurations == configurationListing(r) IN
        Handled("contentHandler", "configurationListingHandler", request,
                configurations.queries,
                IF configurations.threw THEN ClientError
                ELSE ContentResponse(<<"Knative", "Configurations">>,
                                     <<configurations.value>>, <<>>))

configurationDetailHandler(request) ==
    LET name == ElementAt(Split(request.contentPath, "/"), 2) IN
    \E got \in GetAnswers(configurationDetailKey(name)) :
        \E listed \in IF got.ok THEN ListAnswers(configurationRevisionsKey(got.value))
                      ELSE {Raised} :
            LET body == configurationDetail(name, got, listed) IN
            Handled("contentHandler", "configurationDetailHandler", request, body.queries,
                    IF body.threw THEN ClientError
                    ELSE ContentResponse(<<"Knative", "Configurations", name>>, body.value,
                                         <<DeletePayload("Configuration", name)>>))

routeListingHandler(request) ==
    \E r \in ListAnswers(routeListingKey) :
        LET routes == routeListing(r) IN
        Handled("contentHandler", "routeListingHandler", request, routes.queries,
                IF routes.threw THEN ClientError
                ELSE ContentResponse(<<"Knative", "Routes">>, <<routes.value>>, <<>>))

routeDetailHandler(request) ==
    LET name == ElementAt(Split(request.contentPath, "/"), 2) IN
    \E got \in GetAnswers(routeDetailKey(name)) :
        LET body == routeDetail(name, got) IN
        Handled("contentHandler", "routeDetailHandler", request, body.queries,
                IF body.threw THEN ClientError
                ELSE ContentResponse(<<"Knative", "Routes", name>>, body.value,
                                     <<DeletePayload("Route", name)>>))

\* new TextFactory({ value: `Not Found - ${contentPath}` })
NotFound(contentPath) == [factory |-> "TextFactory", value |-> NotFoundPrefix \o contentPath]

contentHandler(request) ==
    LET contentPath == request.contentPath IN
    /\ IF contentPath = <<>> THEN knativeOverviewHandler(request)
       ELSE IF contentPath = Services THEN serviceListingHandler(request)
       ELSE IF StartsWith(contentPath, ServicesPrefix) THEN serviceDetailHandler(request)
       ELSE IF contentPath = Configurations THEN configurationListingHandler(request)
       ELSE IF StartsWith(contentPath, ConfigurationsPrefix)
            THEN configurationDetailHandler(request)
       ELSE IF contentPath = Routes THEN routeListingHandler(request)
       ELSE IF StartsWith(contentPath, RoutesPrefix) THEN routeDetailHandler(request)
       ELSE Handled("contentHandler", "contentHandler", request, <<>>,
                    ContentResponse(<<NotFound(contentPath)>>, <<NotFound(contentPath)>>,
                                    <<>>))
    /\ UNCHANGED <<namespace, dashboardClient, httpClient, actionLog>>

Next ==
    \/ \E request \in ObjectRequests : printHandler(request)
    \/ \E request \in ActionRequests : actionHandler(request)
    \/ \E request \in ObjectRequests : tabHandler(request)
    \/ navigationHandler
    \/ \E request \in ContentRequests : contentHandler(request)

Spec == Init /\ [][Next]_vars

----------------------------------------------------------------------------
(* What a state shows of the most recent call. *)

ContentCall == call.handler = "contentHandler"

Completed == ContentCall /\ result.type = "ContentResponse"

ContentPath == call.request.contentPath

\* a query of the call whose Get or List raised
SomeQueryRaised == \E k \in 1..Len(queries) : ~queries[k].response.ok

ListingMethods ==
    {"serviceListingHandler", "configurationListingHandler", "routeListingHandler"}

RevisionMethods == {"serviceDetailHandler", "configurationDetailHandler"}

DetailMethods == RevisionMethods \cup {"routeDetailHandler"}

\* the pairs <<array the client returned, array handed to the list factory>>
\* of a completed call
NameSorted ==
    IF ~Completed THEN {}
    ELSE IF call.method = "knativeOverviewHandler"
         THEN { <<queries[k].response.value, result.body[k].items>> : k \in 1..3 }
    ELSE IF call.method \in ListingMethods
         THEN { <<queries[1].response.value, result.body[1].items>> }
    ELSE {}

\* the pairs <<revisions the client returned, revisions handed to the
\* summary factory>> of a completed call
GenerationSorted ==
    IF Completed /\ call.method \in RevisionMethods
    THEN { <<queries[2].response.value, result.body[1].revisions>> }
    ELSE {}

Occurrences(array, x) == Cardinality({ i \in 1..Len(array) : array[i] = x })

Elements(array) == { array[i] : i \in 1..Len(array) }

\* b holds the elements of a, each as often as a holds it
IsPermutation(a, b) ==
    /\ Len(a) = Len(b)
    /\ \A x \in Elements(a) \cup Elements(b) : Occurrences(a, x) = Occurrences(b, x)

\* the reorderings of an array
Reorderings(array) ==
    { [i \in 1..Len(array) |-> array[f[i]]] :
        f \in { g \in [1..Len(array) -> 1..Len(array)] :
                    \A i, j \in 1..Len(array) : g[i] = g[j] => i = j } }

\* the characters of a Kubernetes name in the order of their code units
CodeUnitOrder ==
    <<"-", ".", "0", "1", "2", "3", "4", "5", "6", "7", "8", "9",
      "a", "b", "c", "d", "e", "f", "g", "h", "i", "j", "k", "l", "m",
      "n", "o", "p", "q", "r", "s", "t", "u", "v", "w", "x", "y", "z">>

CodeUnit(c) == CHOOSE i \in 1..Len(CodeUnitOrder) : CodeUnitOrder[i] = c

\* a precedes or equals b in lexicographic order
LexLeq(a, b) ==
    \/ /\ Len(a) <= Len(b)
       /\ \A i \in 1..Len(a) : a[i] = b[i]
    \/ \E d \in 1..Len(a) :
          /\ d <= Len(b)
          /\ \A i \in 1..(d - 1) : a[i] = b[i]
          /\ CodeUnit(a[d]) < CodeUnit(b[d])

\* metadata.name, an absent name being the empty string
NameKey(object) ==
    IF "name" \in DOMAIN object.metadata THEN object.metadata.name ELSE <<>>

\* the decimal numeral of a natural number
RECURSIVE Numeral(_)
Numeral(n) ==
    IF n < 10 THEN <<Digits[n + 1]>>
    ELSE Numeral(n \div 10) \o <<Digits[(n % 10) + 1]>>

\* the largest generation a label of the cluster names
MaxGeneration == 10

\* the generation of a revision: the number its generation label names,
\* -1 when the labels map or the label is absent
GenerationKey(revision) ==
    IF /\ "labels" \in DOMAIN revision.metadata
       /\ GenerationLabel \in DOMAIN revision.metadata.labels
    THEN CHOOSE n \in 0..MaxGeneration :
            Numeral(n) = revision.metadata.labels[GenerationLabel]
    ELSE -1

\* the payload namespace of the most recent setNamespace action of a log,
\* "default" when it holds none
RECURSIVE SelectedNamespace(_)
SelectedNamespace(log) ==
    IF log = <<>> THEN "default"
    ELSE IF log[Len(log)].actionName = "action.octant.dev/setNamespace"
         THEN log[Len(log)].payload.namespace
    ELSE SelectedNamespace(SubSeq(log, 1, Len(log) - 1))

----------------------------------------------------------------------------
BeginsWith(p, prefix) ==
    /\ Len(p) >= Len(prefix)
    /\ \A i \in 1..Len(prefix) : p[i] = prefix[i]

RoutingConditions(p) ==
    << p = <<>>,
       p = Services, BeginsWith(p, Services \o <<"/">>),
       p = Configurations, BeginsWith(p, Configurations \o <<"/">>),
       p = Routes, BeginsWith(p, Routes \o <<"/">>) >>

RoutingMethods ==
    << "knativeOverviewHandler",
       "serviceListingHandler", "serviceDetailHandler",
       "configurationListingHandler", "configurationDetailHandler",
       "routeListingHandler", "routeDetailHandler" >>

NotFoundResponse(p) ==
    LET notFound == [factory |-> "TextFactory", value |-> NotFoundPrefix \o p]
    IN  [type |-> "ContentResponse", title |-> <<notFound>>, body |-> <<notFound>>,
         buttons |-> <<>>]

(* C1: contentHandler routes by a fixed table: "" to the overview, exactly *)
(* "/services", "/configurations", "/routes" to the listings, a path that  *)
(* starts with "/services/", "/configurations/", "/routes/" to the         *)
(* matching detail handler, and any other path to the 'Not Found -         *)
(* <contentPath>' response without a client query.  At most one of the     *)
(* seven conditions holds of a path, and the method depends on the path    *)
(* alone.                                                                  *)
C1_RoutingTable ==
    ContentCall =>
        LET matching == { k \in 1..7 : RoutingConditions(ContentPath)[k] }
        IN  /\ Cardinality(matching) <= 1
            /\ \A k \in matching : call.method = RoutingMethods[k]
            /\ matching = {} =>
                  /\ call.method = "contentHandler"
                  /\ queries = <<>>
                  /\ result = NotFoundResponse(ContentPath)

\* "/servicesX" is answered Not Found, in a namespace other than the first
C1_Witness ==
    /\ ContentCall
    /\ ContentPath = Services \o <<"X">>
    /\ namespace = "dev"
    /\ result = NotFoundResponse(Services \o <<"X">>)

----------------------------------------------------------------------------
(* C2: the revisions handed to the summary factory of a Service or         *)
(* Configuration detail page are a permutation of the revisions the client *)
(* returned, in non-decreasing numeric order of the generation label, a    *)
(* revision without labels map or without the label counting as -1.        *)

C2_RevisionsByGeneration ==
    \A pair \in GenerationSorted :
        /\ IsPermutation(pair[1], pair[2])
        /\ \A i, j \in 1..Len(pair[2]) :
              i < j => GenerationKey(pair[2][i]) <= GenerationKey(pair[2][j])

\* the client returned generation 10 before generation 9
C2_Witness ==
    \E pair \in GenerationSorted :
        /\ Len(pair[1]) = 2
        /\ GenerationKey(pair[1][1]) = 10
        /\ GenerationKey(pair[1][2]) = 9

----------------------------------------------------------------------------
(* C3: the objects handed to a list factory are a permutation of the       *)
(* objects the client returned, in non-decreasing lexicographic order of   *)
(* metadata.name, an absent name being the empty string.                   *)

C3_ListingsByName ==
    \A pair \in NameSorted :
        /\ IsPermutation(pair[1], pair[2])
        /\ \A i, j \in 1..Len(pair[2]) :
              i < j => LexLeq(NameKey(pair[2][i]), NameKey(pair[2][j]))

\* the client returned a named object before a nameless one
C3_Witness ==
    \E pair \in NameSorted :
        /\ Len(pair[1]) = 2
        /\ "name" \in DOMAIN pair[1][1].metadata
        /\ "name" \notin DOMAIN pair[1][2].metadata

----------------------------------------------------------------------------
(* C4, as stated: the displayed order depends only on the set of objects    *)
(* the client returned, not on their order, also when several objects have *)
(* equal or absent names or generation labels: sorting any reordering of   *)
(* what the client returned gives the displayed array.                     *)

C4_OrderOfResponseIrrelevant ==
    /\ \A pair \in NameSorted :
          \A other \in Reorderings(pair[1]) : ArraySort("name", other) = pair[2]
    /\ \A pair \in GenerationSorted :
          \A other \in Reorderings(pair[1]) : ArraySort("generation", other) = pair[2]

NameKeys(array) == [i \in 1..Len(array) |-> NameKey(array[i])]

GenerationKeys(array) == [i \in 1..Len(array) |-> GenerationKey(array[i])]

Distinct(keys) == \A i, j \in 1..Len(keys) : keys[i] = keys[j] => i = j

(* C4, as amended: the displayed order of the sort keys (name, an absent    *)
(* name being ""; generation, an absent label being -1) depends only on    *)
(* the objects the client returned, and so does the displayed order of the *)
(* objects when no two of them have the same key; objects with equal keys  *)
(* may be displayed in the order of the client's response.                 *)
C4_OrderOfKeysFixed ==
    /\ \A pair \in NameSorted :
          \A other \in Reorderings(pair[1]) :
              /\ NameKeys(ArraySort("name", other)) = NameKeys(pair[2])
              /\ Distinct(NameKeys(pair[1])) => ArraySort("name", other) = pair[2]
    /\ \A pair \in GenerationSorted :
          \A other \in Reorderings(pair[1]) :
              /\ GenerationKeys(ArraySort("generation", other)) = GenerationKeys(pair[2])
              /\ Distinct(GenerationKeys(pair[1]))
                    => ArraySort("generation", other) = pair[2]

\* two objects with different names came back in the wrong order
C4_Witness ==
    \E pair \in NameSorted :
        /\ Len(pair[1]) = 2
        /\ Distinct(NameKeys(pair[1]))
        /\ pair[1] # pair[2]

----------------------------------------------------------------------------
(* C5: when a Get or List of a contentHandler call raises, the call gives  *)
(* the host no content response (neither 'Not Found' nor a partial page):  *)
(* the exception leaves contentHandler, no further query is issued, and    *)
(* the namespace is what it was before the call.                           *)

C5_ClientErrorPropagates ==
    [][ (ContentCall /\ SomeQueryRaised)' =>
            /\ result'.type = "Error"
            /\ \A k \in 1..Len(queries') : ~queries'[k].response.ok => k = Len(queries')
            /\ namespace' = namespace ]_vars

\* the List of Revisions raised after the Get of the Service returned
C5_Witness ==
    /\ ContentCall
    /\ call.method = "serviceDetailHandler"
    /\ Len(queries) = 2
    /\ queries[1].response.ok
    /\ ~queries[2].response.ok
    /\ result.type = "Error"
    /\ namespace = "prod"

----------------------------------------------------------------------------
Kind(k) == queries[k].key.kind

Selects(k, label) ==
    LET key == queries[k].key
        got == queries[k - 1].response.value
    IN  /\ "selector" \in DOMAIN key
        /\ DOMAIN key.selector = {label}
        /\ key.selector[label] =
              IF "name" \in DOMAIN got.metadata THEN got.metadata.name ELSE Undefined

\* the call issued n queries, or fewer and the last of them raised
Issues(n) ==
    /\ Len(queries) <= n
    /\ Len(queries) >= 1
    /\ \A k \in 1..(Len(queries) - 1) : queries[k].response.ok
    /\ Len(queries) < n => ~queries[Len(queries)].response.ok
    /\ Completed => Len(queries) = n

(* C6: the queries of a request follow a fixed protocol, which ends early  *)
(* only at a query that raised.  Service or Configuration detail: one Get  *)
(* of that kind, then one List of Revisions whose selector is the single   *)
(* label serving.knative.dev/service (or /configuration) with the          *)
(* metadata.name of the object the Get returned.  Route detail: one Get    *)
(* and no List.  Overview: three Lists, of Service, Configuration and      *)
(* Route in this order, and no Get.                                        *)
C6_QueryProtocol ==
    ContentCall =>
        /\ call.method = "serviceDetailHandler" =>
              /\ Issues(2)
              /\ queries[1].op = "Get" /\ Kind(1) = "Service"
              /\ Len(queries) = 2 =>
                    queries[2].op = "List" /\ Kind(2) = "Revision"
                        /\ Selects(2, "serving.knative.dev/service")
        /\ call.method = "configurationDetailHandler" =>
              /\ Issues(2)
              /\ queries[1].op = "Get" /\ Kind(1) = "Configuration"
              /\ Len(queries) = 2 =>
                    queries[2].op = "List" /\ Kind(2) = "Revision"
                        /\ Selects(2, "serving.knative.dev/configuration")
        /\ call.method = "routeDetailHandler" =>
              /\ Issues(1)
              /\ queries[1].op = "Get" /\ Kind(1) = "Route"
        /\ call.method = "knativeOverviewHandler" =>
              /\ Issues(3)
              /\ \A k \in 1..Len(queries) :
                    /\ queries[k].op = "List"
                    /\ Kind(k) = <<"Service", "Configuration", "Route">>[k]
                    /\ "selector" \notin DOMAIN queries[k].key

\* the Get of "/services/" returned the service named "b", and the
\* Revisions were selected by that name
C6_Witness ==
    /\ Completed
    /\ call.method = "serviceDetailHandler"
    /\ queries[1].key.name = <<>>
    /\ queries[2].key.selector["serving.knative.dev/service"] = <<"b">>

----------------------------------------------------------------------------
(* C7: after any sequence of handler calls the namespace is the payload    *)
(* namespace of the most recent 'action.octant.dev/setNamespace' action,   *)
(* or "default" when none was handled since construction.                  *)

C7_NamespaceIsLastSelected == namespace = SelectedNamespace(actionLog)

\* two setNamespace actions with different payloads, then a content request
C7_Witness ==
    /\ Len(actionLog) = 2
    /\ actionLog[1].actionName = "action.octant.dev/setNamespace"
    /\ actionLog[2].actionName = "action.octant.dev/setNamespace"
    /\ actionLog[1].payload.namespace = "dev"
    /\ actionLog[2].payload.namespace = "prod"
    /\ namespace = "prod"
    /\ ContentCall

----------------------------------------------------------------------------
(* C8: every query of a contentHandler call carries apiVersion             *)
(* 'serving.knative.dev/v1' and the namespace the plugin holds at that     *)
(* call, which is the namespace selected last: all queries of one request  *)
(* use the same namespace, never one selected earlier.                     *)

C8_QueriesInSelectedNamespace ==
    ContentCall =>
        \A k \in 1..Len(queries) :
            /\ queries[k].key.apiVersion = "serving.knative.dev/v1"
            /\ queries[k].key.namespace = namespace
            /\ queries[k].key.namespace = SelectedNamespace(actionLog)

\* after "prod" and then "dev" were selected, a detail page issued its Get
\* and its List in "dev"
C8_Witness ==
    /\ ContentCall
    /\ call.method = "configurationDetailHandler"
    /\ Len(actionLog) = 2
    /\ actionLog[1].payload.namespace = "prod"
    /\ actionLog[1].actionName = "action.octant.dev/setNamespace"
    /\ Len(queries) = 2
    /\ queries[1].key.namespace = "dev"
    /\ queries[2].key.namespace = "dev"

----------------------------------------------------------------------------
SlashesBefore(p, i) == Cardinality({ k \in 1..(i - 1) : p[k] = "/" })

\* the characters of p after its second '/' and before its third
ThirdSegment(p) ==
    LET inside == { i \in 1..Len(p) : p[i] # "/" /\ SlashesBefore(p, i) = 2 }
    IN  [k \in 1..Cardinality(inside) |->
            p[CHOOSE i \in inside : Cardinality({ j \in inside : j < i }) = k - 1]]

DetailKind ==
    CASE BeginsWith(ContentPath, Services \o <<"/">>) -> "Service"
      [] BeginsWith(ContentPath, Configurations \o <<"/">>) -> "Configuration"
      [] BeginsWith(ContentPath, Routes \o <<"/">>) -> "Route"
      [] OTHER -> "none"

(* C9: the Delete button of a detail page names the object the page        *)
(* fetched: its kind is that of the matched prefix, its name is the third  *)
(* '/'-separated segment of the content path and the name passed to Get,   *)
(* and its namespace is the namespace passed to Get.                       *)
C9_DeleteTargetsFetchedObject ==
    (Completed /\ call.method \in DetailMethods) =>
        /\ Len(result.buttons) = 1
        /\ result.buttons[1].action = "action.octant.dev/deleteObject"
        /\ result.buttons[1].apiVersion = queries[1].key.apiVersion
        /\ result.buttons[1].kind = DetailKind
        /\ result.buttons[1].kind = queries[1].key.kind
        /\ result.buttons[1].name = ThirdSegment(ContentPath)
        /\ result.buttons[1].name = queries[1].key.name
        /\ result.buttons[1].namespace = queries[1].key.namespace
        /\ queries[1].op = "Get"

\* the page of "/routes/a/b" in namespace "dev" deletes Route "a" of "dev"
C9_Witness ==
    /\ Completed
    /\ ContentPath = Routes \o <<"/", "a", "/", "b">>
    /\ result.buttons[1].name = <<"a">>
    /\ result.buttons[1].kind = "Route"
    /\ result.buttons[1].namespace = "dev"

----------------------------------------------------------------------------
OtherAction ==
    /\ call.handler = "actionHandler"
    /\ call.request.actionName # "action.octant.dev/setNamespace"

(* C10: only the 'action.octant.dev/setNamespace' action changes the       *)
(* plugin: actionHandler with another action name returns nothing and      *)
(* leaves the namespace, every other handler leaves the namespace and the  *)
(* two clients, and printHandler and tabHandler always throw.              *)
C10_OnlySetNamespaceChangesState ==
    [][ /\ OtherAction' => (namespace' = namespace /\ result'.type = "void")
        /\ call'.handler # "actionHandler" => namespace' = namespace
        /\ dashboardClient' = dashboardClient
        /\ httpClient' = httpClient
        /\ call'.handler \in {"printHandler", "tabHandler"} => result'.type = "Error" ]_vars

\* 'knative/testAction' with payload namespace "dev" was handled while the
\* namespace was "prod", and it still is
C10_Witness ==
    /\ OtherAction
    /\ call.request.actionName = "knative/testAction"
    /\ call.request.payload.namespace = "dev"
    /\ namespace = "prod"
    /\ result.type = "void"

====
